---- MODULE Spec2Model ----
(***************************************************************************)
(* Model of openai_moonsun_utils/main.py: the block parser                 *)
(* extract_qa_entries, the record emitter convert_to_jsonl and the         *)
(* `process` command that runs them over the .txt files of a folder.       *)
(*                                                                         *)
(* Text is a sequence of characters; a character is a one-token string.    *)
(* "LF", "CR", "FF" and "TAB" stand for \n, \r, \f and \t.  The two string *)
(* literals of is_question are kept as the source file spells them:        *)
(*   "O" = U+00D8, "Y" = U+0178, "U" = U+00D9, "3" = U+00B3, "^" = U+02C6, *)
(*   "$" = U+00A7, ",," = U+201E; "o", "y", "u" are the lower-case forms   *)
(*   of "O", "Y", "U".                                                     *)
(***************************************************************************)
EXTENDS Integers, Sequences, FiniteSets, TLC

\* ------------------------------------------------------------------ bounds
MaxShort == 3
MaxLines == 5
MaxFiles == 3

\* ------------------------------------------------------- string primitives
Whitespace == {" ", "TAB", "LF", "CR", "FF"}

LineBreaks == {"LF", "CR", "FF"}

RECURSIVE lstrip(_)
lstrip(s) ==
    IF s = <<>> THEN <<>>
    ELSE IF Head(s) \in Whitespace THEN lstrip(Tail(s)) ELSE s

RECURSIVE rstrip(_)
rstrip(s) ==
    IF s = <<>> THEN <<>>
    ELSE IF s[Len(s)] \in Whitespace THEN rstrip(SubSeq(s, 1, Len(s) - 1)) ELSE s

strip(s) == rstrip(lstrip(s))

lower(s) ==
    [n \in 1..Len(s) |->
        CASE s[n] = "O" -> "o"
          [] s[n] = "Y" -> "y"
          [] s[n] = "U" -> "u"
          [] OTHER -> s[n]]

startswith(s, prefix) ==
    /\ Len(prefix) <= Len(s)
    /\ SubSeq(s, 1, Len(prefix)) = prefix

endswith(s, suffix) ==
    /\ Len(suffix) <= Len(s)
    /\ SubSeq(s, Len(s) - Len(suffix) + 1, Len(s)) = suffix

contains(s, sub) ==
    \E n \in 1..(Len(s) - Len(sub) + 1) : SubSeq(s, n, n + Len(sub) - 1) = sub

RECURSIVE join(_, _)
join(sep, parts) ==
    IF parts = <<>> THEN <<>>
    ELSE IF Len(parts) = 1 THEN parts[1]
    ELSE parts[1] \o sep \o join(sep, Tail(parts))

RECURSIVE replace_crlf(_)
replace_crlf(s) ==
    IF s = <<>> THEN <<>>
    ELSE IF Len(s) >= 2 /\ s[1] = "CR" /\ s[2] = "LF"
         THEN <<"LF">> \o replace_crlf(SubSeq(s, 3, Len(s)))
         ELSE <<Head(s)>> \o replace_crlf(Tail(s))

replace_cr(s) == [n \in 1..Len(s) |-> IF s[n] = "CR" THEN "LF" ELSE s[n]]

normalize_text(text) == replace_cr(replace_crlf(text))

RECURSIVE splitlines_from(_, _)
splitlines_from(s, cur) ==
    IF s = <<>> THEN (IF cur = <<>> THEN <<>> ELSE <<cur>>)
    ELSE IF Len(s) >= 2 /\ s[1] = "CR" /\ s[2] = "LF"
         THEN <<cur>> \o splitlines_from(SubSeq(s, 3, Len(s)), <<>>)
    ELSE IF Head(s) \in LineBreaks
         THEN <<cur>> \o splitlines_from(Tail(s), <<>>)
    ELSE splitlines_from(Tail(s), Append(cur, Head(s)))

splitlines(s) == splitlines_from(s, <<>>)

\* ------------------------------------------------------------ block parser
Glyph == <<"O", "Y">>

QuestionWord == <<"O", "3", "U", "^", "O", "$", "U", ",,">>

is_separator(line) ==
    LET s == strip(line)
    IN  /\ Len(s) >= 3
        /\ \A n \in 1..Len(s) : s[n] \in {"-", "="}

is_question(line) ==
    \/ contains(line, Glyph)
    \/ endswith(strip(line), <<"?">>)
    \/ startswith(lower(strip(line)), QuestionWord)

\* ParserStart with the reading flag already set.
ParserStart_reading ==
    [question |-> <<>>, answer_lines |-> <<>>, is_reading_answer |-> TRUE,
     entries |-> <<>>, invalid_count |-> 0]

\* The locals of extract_qa_entries that the nested flush_entry and the loop
\* share, as one record.
ParserStart ==
    [question |-> <<>>, answer_lines |-> <<>>, is_reading_answer |-> FALSE,
     entries |-> <<>>, invalid_count |-> 0]

not_separator(l) == ~is_separator(l)

\* clean_answer with the separator filter inverted.
clean_answer_inverted(answer_lines) ==
    strip(join(<<"LF">>, SelectSeq(answer_lines, is_separator)))

clean_answer(answer_lines) ==
    strip(join(<<"LF">>, SelectSeq(answer_lines, not_separator)))

\* flush_entry that emits whenever there is a question, answered or not.
flush_entry_unchecked(st) ==
    LET counted ==
            IF st.question # <<>>
            THEN [st EXCEPT !.entries =
                     Append(@, <<strip(st.question), clean_answer(st.answer_lines)>>)]
            ELSE IF st.answer_lines # <<>>
            THEN [st EXCEPT !.invalid_count = @ + 1]
            ELSE st
    IN  [counted EXCEPT !.question = <<>>, !.answer_lines = <<>>]

\* flush_entry that does not count a question left without an answer.
flush_entry_uncounted(st) ==
    LET counted ==
            IF st.question # <<>> /\ st.answer_lines # <<>>
            THEN IF clean_answer(st.answer_lines) # <<>>
                 THEN [st EXCEPT !.entries =
                          Append(@, <<strip(st.question), clean_answer(st.answer_lines)>>)]
                 ELSE [st EXCEPT !.invalid_count = @ + 1]
            ELSE IF st.question = <<>> /\ st.answer_lines # <<>>
            THEN [st EXCEPT !.invalid_count = @ + 1]
            ELSE st
    IN  [counted EXCEPT !.question = <<>>, !.answer_lines = <<>>]

\* flush_entry that puts the new pair in front of the list.
flush_entry_prepend(st) ==
    LET counted ==
            IF st.question # <<>> /\ st.answer_lines # <<>>
            THEN IF clean_answer(st.answer_lines) # <<>>
                 THEN [st EXCEPT !.entries =
                          <<<<strip(st.question), clean_answer(st.answer_lines)>>>> \o @]
                 ELSE [st EXCEPT !.invalid_count = @ + 1]
            ELSE IF st.question # <<>> /\ st.answer_lines = <<>>
            THEN [st EXCEPT !.invalid_count = @ + 1]
            ELSE IF st.question = <<>> /\ st.answer_lines # <<>>
            THEN [st EXCEPT !.invalid_count = @ + 1]
            ELSE st
    IN  [counted EXCEPT !.question = <<>>, !.answer_lines = <<>>]

\* flush_entry whose last two branches are one else branch.
flush_entry_counts_all(st) ==
    LET counted ==
            IF st.question # <<>> /\ st.answer_lines # <<>>
            THEN IF clean_answer(st.answer_lines) # <<>>
                 THEN [st EXCEPT !.entries =
                          Append(@, <<strip(st.question), clean_answer(st.answer_lines)>>)]
                 ELSE [st EXCEPT !.invalid_count = @ + 1]
            ELSE IF st.question # <<>> /\ st.answer_lines = <<>>
            THEN [st EXCEPT !.invalid_count = @ + 1]
            ELSE [st EXCEPT !.invalid_count = @ + 1]
    IN  [counted EXCEPT !.question = <<>>, !.answer_lines = <<>>]

flush_entry(st) ==
    LET counted ==
            IF st.question # <<>> /\ st.answer_lines # <<>>
            THEN IF clean_answer(st.answer_lines) # <<>>
                 THEN [st EXCEPT !.entries =
                          Append(@, <<strip(st.question), clean_answer(st.answer_lines)>>)]
                 ELSE [st EXCEPT !.invalid_count = @ + 1]
            ELSE IF st.question # <<>> /\ st.answer_lines = <<>>
            THEN [st EXCEPT !.invalid_count = @ + 1]
            ELSE IF st.question = <<>> /\ st.answer_lines # <<>>
            THEN [st EXCEPT !.invalid_count = @ + 1]
            ELSE st
    IN  [counted EXCEPT !.question = <<>>, !.answer_lines = <<>>]

\* Branch that appends ordinary lines before any question was seen.
Branch_always_reading(st, line) ==
    LET stripped == strip(line)
    IN  IF stripped = <<>> THEN "blank"
        ELSE IF is_question(stripped) THEN "question"
        ELSE IF is_separator(stripped) THEN "separator"
        ELSE "answer"

\* Branch that tests for a separator only before the first question.
Branch_separator_as_answer(st, line) ==
    LET stripped == strip(line)
    IN  IF stripped = <<>> THEN "blank"
        ELSE IF is_question(stripped) THEN "question"
        ELSE IF st.is_reading_answer THEN "answer"
        ELSE IF is_separator(stripped) THEN "separator"
        ELSE "discard"

\* Which branch of the loop body a line takes.
Branch(st, line) ==
    LET stripped == strip(line)
    IN  IF stripped = <<>> THEN "blank"
        ELSE IF is_question(stripped) THEN "question"
        ELSE IF is_separator(stripped) THEN "separator"
        ELSE IF st.is_reading_answer THEN "answer"
        ELSE "discard"

\* LoopBody in which a separator line closes the block.
LoopBody_separator_flushes(st, line) ==
    LET stripped == strip(line)
        b == Branch(st, line)
    IN  IF b = "question"
        THEN [flush_entry(st) EXCEPT !.question = stripped,
                                     !.is_reading_answer = TRUE]
        ELSE IF b = "separator"
        THEN flush_entry(st)
        ELSE IF b = "answer"
        THEN [st EXCEPT !.answer_lines = Append(@, stripped)]
        ELSE st

\* LoopBody that sets the new question before it flushes the old block.
LoopBody_flush_after(st, line) ==
    LET stripped == strip(line)
        b == Branch(st, line)
    IN  IF b = "question"
        THEN flush_entry([st EXCEPT !.question = stripped,
                                    !.is_reading_answer = TRUE])
        ELSE IF b = "answer"
        THEN [st EXCEPT !.answer_lines = Append(@, stripped)]
        ELSE st

LoopBody(st, line) ==
    LET stripped == strip(line)
        b == Branch(st, line)
    IN  IF b = "question"
        THEN [flush_entry(st) EXCEPT !.question = stripped,
                                     !.is_reading_answer = TRUE]
        ELSE IF b = "answer"
        THEN [st EXCEPT !.answer_lines = Append(@, stripped)]
        ELSE st

\* AfterLoop without the flush of the last block.
AfterLoop_no_flush(st) == st

AfterLoop(st) == flush_entry(st)

RECURSIVE LoopFrom(_, _)
LoopFrom(st, ls) ==
    IF ls = <<>> THEN st ELSE LoopFrom(LoopBody(st, Head(ls)), Tail(ls))

\* extract_qa_entries(text) = (entries, invalid_count)
extract_qa_entries(t) ==
    LET st == AfterLoop(LoopFrom(ParserStart, splitlines(normalize_text(t))))
    IN  <<st.entries, st.invalid_count>>

\* ------------------------------------------------------ inputs of the parser
\* Raw lines the short input texts are built from: blank and whitespace-only
\* lines, questions by each test of is_question, answers, a separator and a
\* two-character near-separator.
RawLines ==
    { <<>>,
      <<" ", "TAB">>,
      <<" ", "a", "?">>,
      <<"b", "?">>,
      <<"a">>,
      <<" ", "b", " ">>,
      <<"-", "=", "=">>,
      <<"-", "-">>,
      <<"O", "Y", "a">>,
      QuestionWord }

\* Raw lines the long input texts are built from.
CoreLines ==
    { <<" ", "a", "?">>,
      <<"b", "?">>,
      <<"a">>,
      <<" ", "b", " ">>,
      <<"-", "=", "=">> }

\* Line terminators of a text, and whether its last line is terminated.
EndLF == [sep |-> <<"LF">>, final |-> TRUE]

LineEndings ==
    { EndLF,
      [sep |-> <<"LF">>, final |-> FALSE],
      [sep |-> <<"CR", "LF">>, final |-> TRUE],
      [sep |-> <<"CR">>, final |-> TRUE] }

MakeText(ls, e) == join(e.sep, ls) \o (IF e.final THEN e.sep ELSE <<>>)

SeqsUpTo(S, n) == UNION {[1..m -> S] : m \in 0..n}

\* Short texts over every raw line, long texts over the core lines, and short
\* texts over the core lines under every line ending.
Texts ==
    {MakeText(ls, EndLF) : ls \in SeqsUpTo(RawLines, MaxShort)}
    \cup {MakeText(ls, EndLF) : ls \in SeqsUpTo(CoreLines, MaxLines)}
    \cup {MakeText(ls, e) : ls \in SeqsUpTo(CoreLines, MaxShort), e \in LineEndings}

\* ------------------------------------------------------------------- state
VARIABLES
    pc,                 \* position in extract_qa_entries
    text,               \* its argument
    lines,              \* normalize_text(text).splitlines()
    i,                  \* index of the line the for loop takes next
    question,
    answer_lines,
    is_reading_answer,
    entries,
    invalid_count,
    ppc,                \* position in process
    folder_kind,        \* what the path `folder` names: "missing", "file", "dir"
    folder_file,        \* the content of `folder` when it names a file
    listing,            \* os.listdir(folder)
    disk,               \* content of each listed file
    txt_files,
    k,                  \* index of the file the for loop takes next
    all_entries,
    sink0,              \* the file fine_tune_data.jsonl before the command ran
    sink,               \* the file fine_tune_data.jsonl
    w,                  \* index of the entry convert_to_jsonl writes next
    result              \* how the command ended

parser_vars ==
    <<pc, text, lines, i, question, answer_lines, is_reading_answer,
      entries, invalid_count>>

process_vars ==
    <<ppc, folder_kind, folder_file, listing, disk, sink0, txt_files, k,
      all_entries, sink, w, result>>

vars == <<parser_vars, process_vars>>

Locals ==
    [question |-> question, answer_lines |-> answer_lines,
     is_reading_answer |-> is_reading_answer,
     entries |-> entries, invalid_count |-> invalid_count]

SetLocals(st) ==
    /\ question' = st.question
    /\ answer_lines' = st.answer_lines
    /\ is_reading_answer' = st.is_reading_answer
    /\ entries' = st.entries
    /\ invalid_count' = st.invalid_count

NoContent == [kind |-> "none", text |-> <<>>]

NoSink == [exists |-> FALSE, content |-> <<>>]

ParserIdle ==
    /\ pc = "idle"
    /\ text = <<>>
    /\ lines = <<>>
    /\ i = 1
    /\ question = <<>>
    /\ answer_lines = <<>>
    /\ is_reading_answer = FALSE
    /\ entries = <<>>
    /\ invalid_count = 0

ProcessIdle ==
    /\ ppc = "idle"
    /\ folder_kind = "missing"
    /\ folder_file = NoContent
    /\ listing = <<>>
    /\ disk = <<>>
    /\ txt_files = <<>>
    /\ k = 1
    /\ all_entries = <<>>
    /\ sink0 = NoSink
    /\ sink = NoSink
    /\ w = 1
    /\ result = "running"

\* ------------------------------------------- extract_qa_entries, by steps
InitParse ==
    /\ text \in Texts
    /\ pc = "call"
    /\ lines = <<>>
    /\ i = 1
    /\ question = <<>>
    /\ answer_lines = <<>>
    /\ is_reading_answer = FALSE
    /\ entries = <<>>
    /\ invalid_count = 0
    /\ ProcessIdle

\* Lines 19-25: the locals are set and the text is normalised and split.
Call ==
    /\ pc = "call"
    /\ lines' = splitlines(normalize_text(text))
    /\ i' = 1
    /\ SetLocals(ParserStart)
    /\ pc' = "loop"
    /\ UNCHANGED <<text, process_vars>>

\* One iteration of the for loop, on the branch b.
Iterate(b) ==
    /\ pc = "loop"
    /\ i <= Len(lines)
    /\ Branch(Locals, lines[i]) = b
    /\ SetLocals(LoopBody(Locals, lines[i]))
    /\ i' = i + 1
    /\ UNCHANGED <<pc, text, lines, process_vars>>

SkipBlank == Iterate("blank")

StartQuestion == Iterate("question")

SkipSeparator == Iterate("separator")

AppendAnswer == Iterate("answer")

DiscardLine == Iterate("discard")

\* Lines 72-74: the last block is flushed and the result returned.
Return ==
    /\ pc = "loop"
    /\ i > Len(lines)
    /\ SetLocals(AfterLoop(Locals))
    /\ pc' = "returned"
    /\ UNCHANGED <<text, lines, i, process_vars>>

NextParse ==
    \/ Call
    \/ SkipBlank
    \/ StartQuestion
    \/ SkipSeparator
    \/ AppendAnswer
    \/ DiscardLine
    \/ Return

SpecParse == InitParse /\ [][NextParse]_vars

ScenarioLines ==
    << <<" ", "a", "?">>, <<"a">>, <<"-", "=", "=">>, <<"b", "?">>, <<" ", "b", " ">> >>

\* ------------------------------------------------------ inputs of process
TxtA == <<"a", ".", "t", "x", "t">>

TxtB == <<"b", ".", "t", "x", "t">>

TxtC == <<"c", ".", "t", "x", "t">>

UpperD == <<"d", ".", "T", "X", "T">>

FileNames == {TxtA, TxtB, TxtC, UpperD}

\* Texts a file may hold: nothing, one unanswered question, one block, the
\* two blocks of the scenario under \r\n line ends, and a block whose answer
\* has two lines, the first made of a double quote and a backslash.
FileTexts ==
    { <<>>,
      <<"b", "?", "LF">>,
      <<"a", "?", "LF", "a", "LF">>,
      MakeText(ScenarioLines, [sep |-> <<"CR", "LF">>, final |-> TRUE]),
      <<"b", "?", "LF", "\"", "\\", "LF", "-", "=", "=", "LF", "a", "LF">> }

\* What reading a listed file gives: its text, a UnicodeDecodeError, or
\* another exception (OSError on open or read).
Contents ==
    {[kind |-> "text", text |-> t] : t \in FileTexts}
    \cup {[kind |-> "undecodable", text |-> <<>>],
          [kind |-> "unreadable", text |-> <<>>]}

\* Directory listings: up to MaxFiles distinct names, in any order.
Listings ==
    {s \in SeqsUpTo(FileNames, MaxFiles) :
        \A m, n \in 1..Len(s) : m # n => s[m] # s[n]}

OldRecord == <<"old">>

SystemPrompt == <<"S", "Y", "S">>

\* ----------------------------------------------------------------- process
is_txt(f) == endswith(f, <<".", "t", "x", "t">>)

json_obj(entry) ==
    << [role |-> "system", content |-> SystemPrompt],
       [role |-> "user", content |-> entry[1]],
       [role |-> "assistant", content |-> entry[2]] >>

\* json_escape that leaves every character as it is.
json_escape_none(s) == s

\* The escapes json.dumps applies inside a string under ensure_ascii=False.
RECURSIVE json_escape(_)
json_escape(s) ==
    IF s = <<>> THEN <<>>
    ELSE (CASE Head(s) = "\"" -> <<"\\", "\"">>
            [] Head(s) = "\\" -> <<"\\", "\\">>
            [] Head(s) = "LF" -> <<"\\", "n">>
            [] Head(s) = "CR" -> <<"\\", "r">>
            [] Head(s) = "TAB" -> <<"\\", "t">>
            [] Head(s) = "FF" -> <<"\\", "f">>
            [] OTHER -> <<Head(s)>>)
         \o json_escape(Tail(s))

dumps_str(s) == <<"\"">> \o json_escape(s) \o <<"\"">>

dumps_message(m) ==
    <<"{">> \o dumps_str(<<"role">>) \o <<":", " ">> \o dumps_str(<<m.role>>)
    \o <<",", " ">> \o dumps_str(<<"content">>) \o <<":", " ">>
    \o dumps_str(m.content) \o <<"}">>

\* json.dumps({"messages": [...]}, ensure_ascii=False)
json_dumps(messages) ==
    <<"{">> \o dumps_str(<<"messages">>) \o <<":", " ", "[">>
    \o join(<<",", " ">>, [n \in 1..Len(messages) |-> dumps_message(messages[n])])
    \o <<"]", "}">>

\* Line 88: the string one f.write call is given.
json_line(entry) == json_dumps(json_obj(entry)) \o <<"LF">>

both_present(entry) == strip(entry[1]) # <<>> /\ strip(entry[2]) # <<>>

\* Lines 114-123: the entries of a file that pass the check of both fields.
valid_entries(qa_entries) == SelectSeq(qa_entries, both_present)

Init ==
    /\ ParserIdle
    /\ ppc = "start"
    /\ folder_kind \in {"missing", "file", "dir"}
    /\ listing \in Listings
    /\ folder_kind # "dir" => listing = <<>>
    /\ disk \in [{listing[n] : n \in 1..Len(listing)} -> Contents]
    /\ \A f \in DOMAIN disk : ~is_txt(f) => disk[f] = [kind |-> "text", text |-> <<>>]
    /\ folder_file \in {[kind |-> "text", text |-> t] : t \in FileTexts} \cup {NoContent}
    /\ folder_kind = "file" <=> folder_file # NoContent
    /\ txt_files = <<>>
    /\ k = 1
    /\ all_entries = <<>>
    /\ sink0 \in {NoSink, [exists |-> TRUE, content |-> <<OldRecord>>]}
    /\ sink = sink0
    /\ w = 1
    /\ result = "running"

Exit(code) ==
    /\ result' = code
    /\ ppc' = "done"

\* FolderNotFound that prints the message and returns normally.
FolderNotFound_returns ==
    /\ ppc = "start"
    /\ folder_kind # "dir"
    /\ Exit("Exit0")
    /\ UNCHANGED <<parser_vars, folder_kind, folder_file, listing, disk, sink0,
                   txt_files, k, all_entries, sink, w>>

\* Lines 96-98.
FolderNotFound ==
    /\ ppc = "start"
    /\ folder_kind # "dir"
    /\ Exit("Exit1")
    /\ UNCHANGED <<parser_vars, folder_kind, folder_file, listing, disk, sink0,
                   txt_files, k, all_entries, sink, w>>

\* Lines 100-103.
NoTxtFiles ==
    /\ ppc = "start"
    /\ folder_kind = "dir"
    /\ SelectSeq(listing, is_txt) = <<>>
    /\ Exit("Exit1")
    /\ UNCHANGED <<parser_vars, folder_kind, folder_file, listing, disk, sink0,
                   txt_files, k, all_entries, sink, w>>

\* Lines 100-105.
StartLoop ==
    /\ ppc = "start"
    /\ folder_kind = "dir"
    /\ SelectSeq(listing, is_txt) # <<>>
    /\ txt_files' = SelectSeq(listing, is_txt)
    /\ all_entries' = <<>>
    /\ k' = 1
    /\ ppc' = "loop"
    /\ UNCHANGED <<parser_vars, folder_kind, folder_file, listing, disk, sink0,
                   sink, w, result>>

\* ProcessFile that writes the records of a file as soon as it is parsed.
ProcessFile_streams ==
    /\ ppc = "loop"
    /\ k <= Len(txt_files)
    /\ disk[txt_files[k]].kind = "text"
    /\ LET qa_entries == extract_qa_entries(disk[txt_files[k]].text)[1]
       IN  /\ all_entries' = all_entries \o valid_entries(qa_entries)
           /\ sink' = [exists |-> TRUE,
                       content |-> [n \in 1..Len(all_entries') |->
                                       json_line(all_entries'[n])]]
    /\ k' = k + 1
    /\ UNCHANGED <<parser_vars, ppc, folder_kind, folder_file, listing, disk, sink0,
                   txt_files, w, result>>

\* ProcessFile that puts the entries of a file in front of the earlier ones.
ProcessFile_prepends ==
    /\ ppc = "loop"
    /\ k <= Len(txt_files)
    /\ disk[txt_files[k]].kind = "text"
    /\ LET qa_entries == extract_qa_entries(disk[txt_files[k]].text)[1]
       IN  all_entries' = valid_entries(qa_entries) \o all_entries
    /\ k' = k + 1
    /\ UNCHANGED <<parser_vars, ppc, folder_kind, folder_file, listing, disk, sink0,
                   txt_files, sink, w, result>>

\* Lines 107-135: one file is read, parsed and its valid entries appended.
ProcessFile ==
    /\ ppc = "loop"
    /\ k <= Len(txt_files)
    /\ disk[txt_files[k]].kind = "text"
    /\ LET qa_entries == extract_qa_entries(disk[txt_files[k]].text)[1]
       IN  all_entries' = all_entries \o valid_entries(qa_entries)
    /\ k' = k + 1
    /\ UNCHANGED <<parser_vars, ppc, folder_kind, folder_file, listing, disk, sink0,
                   txt_files, sink, w, result>>

\* OnDecodeError that lets the exception end the command.
OnDecodeError_abort ==
    /\ ppc = "loop"
    /\ k <= Len(txt_files)
    /\ disk[txt_files[k]].kind = "undecodable"
    /\ Exit("Raised")
    /\ UNCHANGED <<parser_vars, folder_kind, folder_file, listing, disk, sink0,
                   txt_files, k, all_entries, sink, w>>

\* Lines 137-138: the file cannot be decoded; the loop goes on.
OnDecodeError ==
    /\ ppc = "loop"
    /\ k <= Len(txt_files)
    /\ disk[txt_files[k]].kind = "undecodable"
    /\ k' = k + 1
    /\ UNCHANGED <<parser_vars, ppc, folder_kind, folder_file, listing, disk, sink0,
                   txt_files, all_entries, sink, w, result>>

\* Lines 139-140: any other exception; the loop goes on.
OnOtherError ==
    /\ ppc = "loop"
    /\ k <= Len(txt_files)
    /\ disk[txt_files[k]].kind = "unreadable"
    /\ k' = k + 1
    /\ UNCHANGED <<parser_vars, ppc, folder_kind, folder_file, listing, disk, sink0,
                   txt_files, all_entries, sink, w, result>>

\* NoEntries that prints the message and returns normally.
NoEntries_returns ==
    /\ ppc = "loop"
    /\ k > Len(txt_files)
    /\ all_entries = <<>>
    /\ Exit("Exit0")
    /\ UNCHANGED <<parser_vars, folder_kind, folder_file, listing, disk, sink0,
                   txt_files, k, all_entries, sink, w>>

\* NoEntries that has the empty list written before it exits.
NoEntries_truncates ==
    /\ ppc = "loop"
    /\ k > Len(txt_files)
    /\ all_entries = <<>>
    /\ sink' = [exists |-> TRUE, content |-> <<>>]
    /\ Exit("Exit1")
    /\ UNCHANGED <<parser_vars, folder_kind, folder_file, listing, disk, sink0,
                   txt_files, k, all_entries, w>>

\* Lines 142-144.
NoEntries ==
    /\ ppc = "loop"
    /\ k > Len(txt_files)
    /\ all_entries = <<>>
    /\ Exit("Exit1")
    /\ UNCHANGED <<parser_vars, folder_kind, folder_file, listing, disk, sink0,
                   txt_files, k, all_entries, sink, w>>

\* Lines 146-147, 79: the output file is created or truncated.
OpenOutput ==
    /\ ppc = "loop"
    /\ k > Len(txt_files)
    /\ all_entries # <<>>
    /\ sink' = [exists |-> TRUE, content |-> <<>>]
    /\ w' = 1
    /\ ppc' = "write"
    /\ UNCHANGED <<parser_vars, folder_kind, folder_file, listing, disk, sink0,
                   txt_files, k, all_entries, result>>

\* Line 79: open raises; nothing catches it.
OpenOutputFails ==
    /\ ppc = "loop"
    /\ k > Len(txt_files)
    /\ all_entries # <<>>
    /\ Exit("Raised")
    /\ UNCHANGED <<parser_vars, folder_kind, folder_file, listing, disk, sink0,
                   txt_files, k, all_entries, sink, w>>

\* Lines 80-88: one record is written.
WriteRecord ==
    /\ ppc = "write"
    /\ w <= Len(all_entries)
    /\ sink' = [sink EXCEPT !.content = Append(@, json_line(all_entries[w]))]
    /\ w' = w + 1
    /\ UNCHANGED <<parser_vars, ppc, folder_kind, folder_file, listing, disk, sink0,
                   txt_files, k, all_entries, result>>

\* Line 88: write raises; the with block closes the file and nothing catches
\* the exception.
WriteRecordFails ==
    /\ ppc = "write"
    /\ w <= Len(all_entries)
    /\ Exit("Raised")
    /\ UNCHANGED <<parser_vars, folder_kind, folder_file, listing, disk, sink0,
                   txt_files, k, all_entries, sink, w>>

\* Lines 149-150: the file is closed and the command returns.
Finish ==
    /\ ppc = "write"
    /\ w > Len(all_entries)
    /\ Exit("Exit0")
    /\ UNCHANGED <<parser_vars, folder_kind, folder_file, listing, disk, sink0,
                   txt_files, k, all_entries, sink, w>>

Next ==
    \/ FolderNotFound
    \/ NoTxtFiles
    \/ StartLoop
    \/ ProcessFile
    \/ OnDecodeError
    \/ OnOtherError
    \/ NoEntries
    \/ OpenOutput
    \/ OpenOutputFails
    \/ WriteRecord
    \/ WriteRecordFails
    \/ Finish

Spec == Init /\ [][Next]_vars

\* The exit status of the command: an uncaught exception ends it with 1.
ExitCode(r) == IF r = "Exit0" THEN 0 ELSE 1

\* ---------------------------------------------- the structure of an input
\* What a line is, read off the input alone.
Kind(l) ==
    IF strip(l) = <<>> THEN "blank"
    ELSE IF is_question(strip(l)) THEN "question"
    ELSE IF is_separator(strip(l)) THEN "separator"
    ELSE "text"

QuestionIdx(ls) == {n \in 1..Len(ls) : Kind(ls[n]) = "question"}

\* The index of the first question line after line q, or one past the end.
NextQuestion(ls, q) ==
    LET later == {n \in QuestionIdx(ls) : n > q}
    IN  IF later = {} THEN Len(ls) + 1
        ELSE CHOOSE n \in later : \A m \in later : n <= m

IdxSeq(a, b) == [n \in 1..(b - a + 1) |-> a + n - 1]

\* The trimmed ordinary lines of the block that question line q opens.
BlockAnswers(ls, q) ==
    LET IsText(n) == Kind(ls[n]) = "text"
        idx == SelectSeq(IdxSeq(q + 1, NextQuestion(ls, q) - 1), IsText)
    IN  [m \in 1..Len(idx) |-> strip(ls[idx[m]])]

Answered(ls) == {q \in QuestionIdx(ls) : BlockAnswers(ls, q) # <<>>}

AnsweredSeq(ls) ==
    LET IsAnswered(n) == n \in Answered(ls)
    IN  SelectSeq(IdxSeq(1, Len(ls)), IsAnswered)

\* The position, among the pairs, of the pair of the answered question q.
Rank(ls, q) == Cardinality({p \in Answered(ls) : p <= q})

\* A separator line stands between two answer lines of the block of q.
SeparatorInside(ls, q) ==
    \E a1, sp, a2 \in (q + 1)..(NextQuestion(ls, q) - 1) :
        /\ a1 < sp /\ sp < a2
        /\ Kind(ls[a1]) = "text"
        /\ Kind(ls[sp]) = "separator"
        /\ Kind(ls[a2]) = "text"

AllWellFormed(ls) == \A q \in QuestionIdx(ls) : BlockAnswers(ls, q) # <<>>

ScenarioPairs == << <<<<"a", "?">>, <<"a">>>>, <<<<"b", "?">>, <<"b">>>> >>

\* ------------------------------------------------------------------ claims
\* C1: when every question line of the input opens a well-formed block (at
\* least one ordinary line before the next question line or the end), the
\* parser returns as many pairs as there are question lines and counts no
\* invalid block; the two-block scenario with a separator between the blocks
\* returns its two pairs.
C1_WellFormedBlocks ==
    pc = "returned" =>
        /\ AllWellFormed(lines) =>
               /\ Len(entries) = Cardinality(QuestionIdx(lines))
               /\ invalid_count = 0
        /\ lines = ScenarioLines => entries = ScenarioPairs

C1_Witness ==
    /\ pc = "returned"
    /\ lines = ScenarioLines
    /\ AllWellFormed(lines)
    /\ Len(entries) = 2

\* C2: at every point of the pass, every pair in the result has a question
\* and an answer that are non-empty after trimming.
C2_NoEmptyField ==
    \A n \in 1..Len(entries) :
        /\ strip(entries[n][1]) # <<>>
        /\ strip(entries[n][2]) # <<>>

C2_Witness ==
    /\ pc = "returned"
    /\ Len(entries) >= 1
    /\ invalid_count >= 1

\* C3: a block with a separator line between two of its answer lines yields
\* one pair, at the block's position among the pairs, whose answer is the
\* newline-join of the block's ordinary lines in order; no line of that
\* answer is a separator, and no other pair is made from the block.
C3_SeparatorDoesNotSplit ==
    pc = "returned" =>
        \A q \in QuestionIdx(lines) :
            SeparatorInside(lines, q) =>
                /\ Len(entries) = Cardinality(Answered(lines))
                /\ entries[Rank(lines, q)] =
                       <<strip(lines[q]), join(<<"LF">>, BlockAnswers(lines, q))>>
                /\ \A l \in 1..Len(splitlines(entries[Rank(lines, q)][2])) :
                       ~is_separator(splitlines(entries[Rank(lines, q)][2])[l])

C3_Witness ==
    /\ pc = "returned"
    /\ \E q \in QuestionIdx(lines) :
          /\ SeparatorInside(lines, q)
          /\ NextQuestion(lines, q) <= Len(lines)
          /\ entries[Rank(lines, q)][2] = <<"a", "LF", "b">>

\* A question line at n that follows a question line with only blank and
\* separator lines between the two.
QuestionAfterQuestion(ls, n) ==
    /\ Kind(ls[n]) = "question"
    /\ \E p \in 1..(n - 1) :
          /\ Kind(ls[p]) = "question"
          /\ \A m \in (p + 1)..(n - 1) : Kind(ls[m]) \in {"blank", "separator"}

\* C4: the step that takes a question line following an unanswered question
\* line raises invalid_count by exactly 1 and adds no pair.
C4_UnansweredQuestionCounted ==
    [][(/\ pc = "loop"
        /\ i <= Len(lines)
        /\ QuestionAfterQuestion(lines, i)
        /\ i' = i + 1)
       => (invalid_count' = invalid_count + 1 /\ entries' = entries)]_vars

C4_Witness ==
    /\ pc = "loop"
    /\ i = 4
    /\ QuestionAfterQuestion(lines, 3)
    /\ Kind(lines[2]) = "separator"
    /\ invalid_count = 1
    /\ entries = <<>>

\* The last question line of the input has no answer line after it.
LastQuestionUnanswered(ls) ==
    /\ QuestionIdx(ls) # {}
    /\ \A q \in QuestionIdx(ls) :
          NextQuestion(ls, q) = Len(ls) + 1 => BlockAnswers(ls, q) = <<>>

\* C5: when the last question line has no answer line after it, the flush at
\* the end of the input raises invalid_count by exactly 1 and adds no pair;
\* an input that is a single question line returns no pair and the count 1.
C5_LastQuestionUnanswered ==
    [][(pc = "loop" /\ pc' = "returned")
       => /\ LastQuestionUnanswered(lines) =>
                (invalid_count' = invalid_count + 1 /\ entries' = entries)
          /\ (Len(lines) = 1 /\ Kind(lines[1]) = "question") =>
                (entries' = <<>> /\ invalid_count' = 1)]_vars

C5_Witness ==
    /\ pc = "returned"
    /\ LastQuestionUnanswered(lines)
    /\ Len(entries) = 1
    /\ invalid_count = 1

\* C6: an input without a question line returns no pair and the count 0.
C6_NoQuestionNoResult ==
    (pc = "returned" /\ QuestionIdx(lines) = {}) =>
        (entries = <<>> /\ invalid_count = 0)

C6_Witness ==
    /\ pc = "returned"
    /\ QuestionIdx(lines) = {}
    /\ \E n \in 1..Len(lines) : Kind(lines[n]) = "text"
    /\ \E n \in 1..Len(lines) : Kind(lines[n]) = "separator"
    /\ \E n \in 1..Len(lines) : Kind(lines[n]) = "blank"

\* C7: the questions of the returned pairs are the answered question lines
\* of the input, in input order and with repetitions kept.
C7_InputOrderKept ==
    pc = "returned" =>
        /\ Len(entries) = Len(AnsweredSeq(lines))
        /\ \A n \in 1..Len(entries) :
              entries[n][1] = strip(lines[AnsweredSeq(lines)[n]])

C7_Witness ==
    /\ pc = "returned"
    /\ Len(entries) = 2
    /\ entries[1] = entries[2]
    /\ \E t \in 1..Len(text) : text = SubSeq(text, 1, t) \o SubSeq(text, 1, t)

C7_WitnessOrder ==
    /\ pc = "returned"
    /\ Len(entries) = 2
    /\ entries[1][1] = <<"b", "?">>
    /\ entries[2][1] = <<"a", "?">>

\* ------------------------------------------------ the structure of a batch
\* The pairs of the listed .txt files that can be read, in listing order.
RECURSIVE PairsOfReadable(_)
PairsOfReadable(ls) ==
    IF ls = <<>> THEN <<>>
    ELSE (IF is_txt(Head(ls)) /\ disk[Head(ls)].kind = "text"
          THEN extract_qa_entries(disk[Head(ls)].text)[1]
          ELSE <<>>)
         \o PairsOfReadable(Tail(ls))

Records(es) == [n \in 1..Len(es) |-> json_line(es[n])]

TxtCount == Cardinality({n \in 1..Len(listing) : is_txt(listing[n])})

FailedCount ==
    Cardinality({n \in 1..Len(listing) :
                    is_txt(listing[n]) /\ disk[listing[n]].kind # "text"})

\* C8: when the command has ended on a folder with .txt files, every one of
\* them was taken by the loop whatever failed on the way, the aggregated
\* pairs are exactly the pairs of the files that could be read, the command
\* did not end on the no-entries exit when those files gave a pair, and an
\* output written to the end holds exactly the records of those pairs, with
\* exit code 0.
C8_FailedFileSkipped ==
    (ppc = "done" /\ folder_kind = "dir" /\ TxtCount > 0) =>
        /\ k = TxtCount + 1
        /\ all_entries = PairsOfReadable(listing)
        /\ PairsOfReadable(listing) # <<>> => result \in {"Exit0", "Raised"}
        /\ result = "Exit0" =>
              /\ ExitCode(result) = 0
              /\ sink = [exists |-> TRUE,
                         content |-> Records(PairsOfReadable(listing))]

C8_Witness ==
    /\ ppc = "done"
    /\ result = "Exit0"
    /\ Len(txt_files) = 3
    /\ disk[txt_files[1]].kind = "text"
    /\ disk[txt_files[2]].kind = "undecodable"
    /\ disk[txt_files[3]].kind = "text"
    /\ extract_qa_entries(disk[txt_files[1]].text)[1] # <<>>
    /\ extract_qa_entries(disk[txt_files[3]].text)[1] # <<>>
    /\ Len(sink.content) = Len(all_entries)

C8_WitnessOther ==
    /\ ppc = "done"
    /\ result = "Exit0"
    /\ Len(txt_files) = 2
    /\ disk[txt_files[1]].kind = "unreadable"
    /\ Len(sink.content) >= 1

\* The input files and their pairs as the claims C9 and C10 read them: a
\* path that names a file is itself the one input file.
InputFileCount == IF folder_kind = "file" THEN 1 ELSE TxtCount

InputPairs ==
    IF folder_kind = "file" THEN extract_qa_entries(folder_file.text)[1]
    ELSE PairsOfReadable(listing)

\* C9 as stated: the exit code is non-zero exactly when the path does not
\* exist, no input file is found or no pair is extracted.
C9_Original ==
    ppc = "done" =>
        (ExitCode(result) # 0 <=>
            \/ folder_kind = "missing"
            \/ InputFileCount = 0
            \/ InputPairs = <<>>)

\* C9, amended: the command ends with typer.Exit(1) exactly when the path is
\* not an existing directory, the directory lists no .txt file, or no pair
\* was extracted from any file; otherwise it exits zero unless opening or
\* writing the output file raised, which also ends it with a non-zero code.
C9_ExitCode ==
    ppc = "done" =>
        /\ result \in {"Exit0", "Exit1", "Raised"}
        /\ result = "Exit1" <=>
              \/ folder_kind # "dir"
              \/ TxtCount = 0
              \/ PairsOfReadable(listing) = <<>>
        /\ ExitCode(result) # 0 <=>
              \/ folder_kind # "dir"
              \/ TxtCount = 0
              \/ PairsOfReadable(listing) = <<>>
              \/ result = "Raised"

\* Some file gave no pair while another gave one, and the command exited 0.
C9_Witness ==
    /\ ppc = "done"
    /\ result = "Exit0"
    /\ \E f \in DOMAIN disk :
          /\ is_txt(f)
          /\ disk[f].kind = "text"
          /\ extract_qa_entries(disk[f].text)[1] = <<>>
          /\ extract_qa_entries(disk[f].text)[2] = 1

C9_WitnessNoPairs ==
    /\ ppc = "done"
    /\ result = "Exit1"
    /\ folder_kind = "dir"
    /\ TxtCount = 2
    /\ FailedCount = 1

\* C10 as stated: the path of an existing text file that holds a well-formed
\* block is processed and the command exits zero.
C10_Original ==
    (/\ ppc = "done"
     /\ folder_kind = "file"
     /\ extract_qa_entries(folder_file.text)[1] # <<>>)
    => ExitCode(result) = 0

\* C10, amended: the command accepts a directory path only.  Given the path
\* of an existing file, whatever it holds, it ends with exit code 1 without
\* reading a file or touching the output; given a directory that lists a
\* readable .txt file with a well-formed block, it processes the file and
\* exits zero unless opening or writing the output file raised.
C10_DirectoryOnly ==
    /\ folder_kind = "file" =>
          /\ ppc \in {"start", "done"}
          /\ ppc = "done" => ExitCode(result) = 1 /\ result = "Exit1"
          /\ txt_files = <<>> /\ k = 1 /\ all_entries = <<>>
          /\ sink \in {NoSink, [exists |-> TRUE, content |-> <<OldRecord>>]}
          /\ sink = sink0
    /\ (/\ ppc = "done"
        /\ folder_kind = "dir"
        /\ \E f \in DOMAIN disk :
              /\ is_txt(f)
              /\ disk[f].kind = "text"
              /\ extract_qa_entries(disk[f].text)[1] # <<>>)
       => \/ result = "Raised"
          \/ /\ ExitCode(result) = 0
             /\ sink.exists
             /\ Len(sink.content) >= 1

C10_Witness ==
    /\ ppc = "done"
    /\ folder_kind = "file"
    /\ extract_qa_entries(folder_file.text)[1] # <<>>
    /\ result = "Exit1"

C10_WitnessDir ==
    /\ ppc = "done"
    /\ folder_kind = "dir"
    /\ Len(listing) = 1
    /\ result = "Exit0"

\* ----------------------------------------------- the structure of the sink
RECURSIVE Flatten(_)
Flatten(chunks) ==
    IF chunks = <<>> THEN <<>> ELSE Head(chunks) \o Flatten(Tail(chunks))

\* The characters of the output file.
FileBody == Flatten(sink.content)

\* The positions of the raw line feeds of a body.
LineFeeds(body) == {n \in 1..Len(body) : body[n] = "LF"}

\* The position of the n-th line feed, 0 for n = 0.
LineFeedAt(body, n) ==
    IF n = 0 THEN 0
    ELSE CHOOSE p \in LineFeeds(body) :
            Cardinality({q \in LineFeeds(body) : q <= p}) = n

\* The n-th line of a body, without the line feed that ends it.
LineOfBody(body, n) ==
    SubSeq(body, LineFeedAt(body, n - 1) + 1, LineFeedAt(body, n) - 1)

Unescaped(c) ==
    CASE c = "n" -> "LF"
      [] c = "r" -> "CR"
      [] c = "t" -> "TAB"
      [] c = "f" -> "FF"
      [] OTHER -> c

\* The strings of a JSON text, decoded, in the order they appear.
RECURSIVE StringsOf(_, _, _)
StringsOf(s, inside, cur) ==
    IF s = <<>> THEN <<>>
    ELSE IF ~inside
         THEN StringsOf(Tail(s), Head(s) = "\"", <<>>)
    ELSE IF Head(s) = "\\" /\ Len(s) >= 2
         THEN StringsOf(SubSeq(s, 3, Len(s)), TRUE, Append(cur, Unescaped(s[2])))
    ELSE IF Head(s) = "\""
         THEN <<cur>> \o StringsOf(Tail(s), FALSE, <<>>)
    ELSE StringsOf(Tail(s), TRUE, Append(cur, Head(s)))

\* The strings the record of a pair holds: keys and values of the system,
\* user and assistant entries.
StringsOfPair(entry) ==
    << <<"messages">>,
       <<"role">>, <<"system">>, <<"content">>, SystemPrompt,
       <<"role">>, <<"user">>, <<"content">>, entry[1],
       <<"role">>, <<"assistant">>, <<"content">>, entry[2] >>

\* C11: when convert_to_jsonl has written every pair and the command ended
\* normally, the output file has exactly one line per pair, each ended by a
\* line feed, and the i-th line decodes to the system entry, the question of
\* the i-th pair as user content and its answer as assistant content.
C11_OneLinePerPair ==
    (ppc = "done" /\ result = "Exit0") =>
        /\ sink.exists
        /\ FileBody # <<>> /\ FileBody[Len(FileBody)] = "LF"
        /\ Cardinality(LineFeeds(FileBody)) = Len(all_entries)
        /\ \A n \in 1..Len(all_entries) :
              StringsOf(LineOfBody(FileBody, n), FALSE, <<>>)
                  = StringsOfPair(all_entries[n])

\* Two files gave pairs, one with a two-line answer holding a quote and a
\* backslash.
C11_Witness ==
    /\ ppc = "done"
    /\ result = "Exit0"
    /\ Len(all_entries) >= 3
    /\ \E n \in 1..Len(all_entries) :
          all_entries[n][2] = <<"\"", "\\", "LF", "a">>

\* C12 as stated: when convert_to_jsonl raised, the error reached the caller
\* and the output file is as it was before the call or holds every record;
\* it never holds only some of the records and never lost what it held.
C12_NoPartialWrite ==
    (ppc = "done" /\ result = "Raised") =>
        \/ sink = sink0
        \/ sink = [exists |-> TRUE, content |-> Records(all_entries)]

IsPrefix(s, t) == Len(s) <= Len(t) /\ SubSeq(t, 1, Len(s)) = s

\* C13: the output file changes only once every listed .txt file has been
\* taken by the loop: first by the one open that empties it, then by the
\* write of one record at a time, while k and all_entries stand still; once
\* it is open the command never goes back to the loop, so it is opened at
\* most once.
C13_WrittenOnceAfterLoop ==
    [][/\ sink' # sink =>
            /\ txt_files # <<>>
            /\ k = Len(txt_files) + 1
            /\ k' = k
            /\ all_entries' = all_entries
            /\ \/ /\ ppc = "loop" /\ ppc' = "write"
                  /\ sink' = [exists |-> TRUE, content |-> <<>>]
               \/ /\ ppc = "write" /\ ppc' = "write"
                  /\ Len(sink.content) < Len(all_entries)
                  /\ sink'.content =
                        Append(sink.content, json_line(all_entries[Len(sink.content) + 1]))
       /\ ppc \in {"write", "done"} => ppc' \in {"write", "done"}]_vars

\* Three files, one of them failing, and the output written to the end.
C13_Witness ==
    /\ ppc = "done"
    /\ result = "Exit0"
    /\ Len(txt_files) = 3
    /\ FailedCount = 1
    /\ sink0.exists
    /\ Len(sink.content) >= 2

\* C14: at every point of the loop and after it, all_entries is the
\* concatenation, in processing order, of the pairs of the files taken so
\* far that could be read; every step leaves the earlier entries in place at
\* the front.
C14_Concatenation ==
    /\ [](ppc \in {"loop", "write", "done"} /\ txt_files # <<>> =>
             all_entries = PairsOfReadable(SubSeq(txt_files, 1, k - 1)))
    /\ [][IsPrefix(all_entries, all_entries')]_vars

\* Two files with different pairs, taken in listing order b.txt, a.txt.
C14_Witness ==
    /\ ppc = "done"
    /\ result = "Exit0"
    /\ txt_files = <<TxtB, TxtA>>
    /\ disk[TxtB].kind = "text"
    /\ disk[TxtA].kind = "text"
    /\ Len(extract_qa_entries(disk[TxtB].text)[1]) = 2
    /\ Len(extract_qa_entries(disk[TxtA].text)[1]) = 1
    /\ extract_qa_entries(disk[TxtA].text)[1][1] # extract_qa_entries(disk[TxtB].text)[1][1]
    /\ Len(all_entries) = 3

\* C19: when the command has ended with typer.Exit(1), whether on a missing
\* path, a folder without .txt files or a batch without any pair, the output
\* file is what it was before the command ran and no record was written.
C19_FailedRunLeavesOutput ==
    result = "Exit1" =>
        /\ ppc = "done"
        /\ sink = sink0
        /\ w = 1

\* An output file existed and two files were parsed without giving a pair.
C19_Witness ==
    /\ result = "Exit1"
    /\ folder_kind = "dir"
    /\ Len(txt_files) = 2
    /\ k = 3
    /\ FailedCount = 0
    /\ sink0.exists
    /\ sink = sink0

C19_WitnessMissing ==
    /\ result = "Exit1"
    /\ folder_kind = "missing"
    /\ sink0.exists
    /\ sink = sink0

\* ------------------------------------------------------ the pass, refined
\* What the loop and the final flush return for a sequence of lines.
ResultOf(ls) == AfterLoop(LoopFrom(ParserStart, ls))

\* The lines 1..j hold no question line.
NoQuestionUpTo(ls, j) == \A n \in 1..j : Kind(ls[n]) # "question"

\* C15: dropping any run of lines before the first question line from the
\* front of the input leaves the pairs and invalid_count as they are.
C15_PreambleDiscarded ==
    pc = "returned" =>
        \A j \in 0..Len(lines) :
            NoQuestionUpTo(lines, j) =>
                /\ entries = ResultOf(SubSeq(lines, j + 1, Len(lines))).entries
                /\ invalid_count =
                       ResultOf(SubSeq(lines, j + 1, Len(lines))).invalid_count

\* An ordinary line and a separator stand before the first question, which
\* is answered.
C15_Witness ==
    /\ pc = "returned"
    /\ Len(lines) >= 4
    /\ Kind(lines[1]) = "text"
    /\ Kind(lines[2]) = "separator"
    /\ Kind(lines[3]) = "question"
    /\ Len(entries) = 1
    /\ invalid_count = 0

\* C16: the step that takes a question line leaves the question buffer equal
\* to the trimmed line and the answer buffer empty; when an earlier question
\* line opened a block, that block is accounted for by exactly one new pair
\* at the end of the pairs or by one more invalid block, and when there was
\* none, pairs and count stay as they are.
C16_QuestionStartsBlock ==
    [][(/\ pc = "loop"
        /\ i <= Len(lines)
        /\ Kind(lines[i]) = "question"
        /\ i' = i + 1)
       => /\ question' = strip(lines[i])
          /\ answer_lines' = <<>>
          /\ IF \E p \in 1..(i - 1) : Kind(lines[p]) = "question"
             THEN \/ /\ Len(entries') = Len(entries) + 1
                     /\ IsPrefix(entries, entries')
                     /\ invalid_count' = invalid_count
                  \/ /\ entries' = entries
                     /\ invalid_count' = invalid_count + 1
             ELSE /\ entries' = entries
                  /\ invalid_count' = invalid_count]_vars

\* A question line was just taken while answer lines were being gathered.
C16_Witness ==
    /\ pc = "loop"
    /\ i >= 4
    /\ Kind(lines[i - 1]) = "question"
    /\ Kind(lines[i - 2]) = "text"
    /\ question = strip(lines[i - 1])
    /\ answer_lines = <<>>
    /\ Len(entries) = 1

\* C17: at every point of the pass the pairs, the invalid blocks and the
\* block still open add up to the question lines taken so far; on return
\* the pairs and the invalid blocks add up to the question lines of the
\* input.
C17_Conservation ==
    pc \in {"loop", "returned"} =>
        /\ Len(entries) + invalid_count + (IF question # <<>> THEN 1 ELSE 0)
              = Cardinality({n \in 1..(i - 1) : Kind(lines[n]) = "question"})
        /\ pc = "returned" =>
              /\ i = Len(lines) + 1
              /\ Len(entries) + invalid_count = Cardinality(QuestionIdx(lines))

C17_Witness ==
    /\ pc = "returned"
    /\ Cardinality(QuestionIdx(lines)) = 3
    /\ Len(entries) = 2
    /\ invalid_count = 1

\* C18: the answer buffer is non-empty only while the question buffer is,
\* it holds no blank and no separator line, and its join is not blank; so
\* no flush meets orphaned answer lines or an answer that cleans to nothing.
C18_BufferInvariant ==
    /\ answer_lines # <<>> => question # <<>>
    /\ \A n \in 1..Len(answer_lines) :
          /\ strip(answer_lines[n]) # <<>>
          /\ ~is_separator(answer_lines[n])
    /\ answer_lines # <<>> => strip(join(<<"LF">>, answer_lines)) # <<>>

\* Two answer lines are gathered, with a separator line between them.
C18_Witness ==
    /\ pc = "loop"
    /\ i >= 5
    /\ Len(answer_lines) = 2
    /\ Kind(lines[i - 2]) = "separator"
    /\ question # <<>>

====
